---- MODULE Spec2Model ----
(***************************************************************************)
(* Model of webapp/backend/src/domains/auth_service.rs: AuthService over   *)
(* an AuthRepository.  Every call of the service is a process that moves   *)
(* from one suspension point (.await) to the next; each repository call is *)
(* one atomic step on the stored users, dispatchers and sessions.          *)
(***************************************************************************)
EXTENDS Integers, Sequences, FiniteSets, TLC

\* ---- bounds -------------------------------------------------------------
NumProcs == 2          \* calls that can be in flight at the same time
MaxCalls == 2          \* register_user and login_user calls started in one behaviour

Procs == 1..NumProcs
Usernames == {"alice", "bob"}
Passwords == {"pw1", "pw2"}
Roles == {"user", "dispatcher"}
Areas == {7, 8}

\* ---- Option<T> ----------------------------------------------------------
None == <<>>
Some(x) == <<x>>
IsSome(o) == Len(o) = 1
IsNone(o) == Len(o) = 0
Unwrap(o) == o[1]
OptAreas == {None} \cup {Some(a) : a \in Areas}

VARIABLES
    users,        \* repository: set of User (never deleted: id = count + 1)
    dispatchers,  \* repository: set of Dispatcher
    nextDispatcherId, \* repository: next generated Dispatcher id
    sessions,     \* repository: set of Session
    nextToken,    \* generate_session_token: next unused token
    issued,       \* session tokens handed out in a LoginResponseDto
    registered,   \* history: arguments and response of every register_user that returned Ok
    calls,        \* number of register_user and login_user calls started
    pc,           \* pc[p]: suspension point the call of p is at
    arg,          \* arg[p]: arguments of the call of p
    loc,          \* loc[p]: local variables of the call of p
    ret           \* what the call that returned last was given and returned

vars == <<users, dispatchers, nextDispatcherId, sessions, nextToken, issued, registered,
          calls, pc, arg, loc, ret>>
store == <<users, dispatchers, nextDispatcherId, sessions>>

NoArg == [op |-> "none", username |-> "", password |-> "", role |-> "",
          area |-> None, session_token |-> 0]
NoLoc == [find_done |-> FALSE, user_result |-> None,
          hash_done |-> FALSE, hashed_password |-> None,
          join_error |-> "",  \* the Err a future of try_join! completed with
          user |-> None, session_token |-> 0, writes |-> 0,
          taken |-> FALSE,   \* history: a User of that name existed at the call
          created |-> None,  \* history: id of the User this call created
          path |-> ""]       \* get_resized_profile_image_byte: the file to open
NoRet == [in |-> NoArg, status |-> "none", err |-> "", resp |-> None,
          valid |-> None, writes |-> 0, bytes |-> None]

\* ---- crate::utils -------------------------------------------------------
hash_password(password) == <<"hash", password>>
verify_password(hash, password) == hash = hash_password(password)

\* ---- AuthRepository -----------------------------------------------------
UsersNamed(username) == {u \in users : u.username = username}
DispatchersOf(user_id) == {d \in dispatchers : d.user_id = user_id}
SessionsWith(session_token) == {s \in sessions : s.session_token = session_token}

\* the possible Ok(..) answers of the two lookups
find_user_by_username(username) ==
    IF UsersNamed(username) = {} THEN {None} ELSE {Some(u) : u \in UsersNamed(username)}
find_dispatcher_by_user_id(user_id) ==
    IF DispatchersOf(user_id) = {} THEN {None} ELSE {Some(d) : d \in DispatchersOf(user_id)}
create_user(username, password, role) ==
    users \cup {[id |-> Cardinality(users) + 1, username |-> username,
                  password |-> password, role |-> role]}
create_dispatcher(user_id, area_id) ==
    dispatchers \cup {[id |-> nextDispatcherId, user_id |-> user_id,
                        area_id |-> area_id]}
create_session(user_id, session_token) ==
    sessions \cup {[session_token |-> session_token, user_id |-> user_id, is_valid |-> TRUE]}
delete_session(session_token) == sessions \ SessionsWith(session_token)

\* ---- a new call ----------------------------------------------------------
\* calls on the shared service run concurrently; idle slots are interchangeable,
\* so a new call takes the first one
FreeSlot(p) == pc[p] = "idle" /\ \A q \in Procs : q < p => pc[q] # "idle"

\* ---- returning from a call ----------------------------------------------
Return(p, in, status, err, resp, valid, writes) ==
    /\ pc' = [pc EXCEPT ![p] = "idle"]
    /\ ret' = [in |-> in, status |-> status, err |-> err,
               resp |-> resp, valid |-> valid, writes |-> writes, bytes |-> None]
    /\ issued' = IF IsSome(resp) THEN issued \cup {Unwrap(resp).session_token} ELSE issued
    /\ registered' = IF in.op = "register" /\ status = "Ok"
                     THEN registered \cup {[in |-> in, resp |-> Unwrap(resp),
                                             created |-> loc[p].created]}
                     ELSE registered
    /\ arg' = [arg EXCEPT ![p] = NoArg]
    /\ loc' = [loc EXCEPT ![p] = NoLoc]
Fail(p, err, writes) == Return(p, arg[p], "Err", err, None, None, writes)
\* Option::unwrap on None: the task panics, the caller gets no Result at all
Panic(p, writes) == Return(p, arg[p], "Panic", "", None, None, writes)
Goto(p, label, newloc) ==
    /\ pc' = [pc EXCEPT ![p] = label]
    /\ loc' = [loc EXCEPT ![p] = newloc]
    /\ UNCHANGED <<arg, ret, issued, registered>>

\* ---- LoginResponseDto ---------------------------------------------------
DispatcherResponse_NoArea(user, session_token, dispatcher) ==
    [user_id |-> user.id, username |-> user.username, session_token |-> session_token,
     role |-> user.role, dispatcher_id |-> Some(dispatcher.id), area_id |-> None]
DispatcherResponse(user, session_token, dispatcher) ==
    [user_id |-> user.id, username |-> user.username, session_token |-> session_token,
     role |-> user.role, dispatcher_id |-> Some(dispatcher.id),
     area_id |-> Some(dispatcher.area_id)]
\* (variant that answers with a token other than the stored one)
UserResponse_FreshToken(user, session_token) ==
    [user_id |-> user.id, username |-> user.username, session_token |-> session_token + 1,
     role |-> user.role, dispatcher_id |-> None, area_id |-> None]
UserResponse(user, session_token) ==
    [user_id |-> user.id, username |-> user.username, session_token |-> session_token,
     role |-> user.role, dispatcher_id |-> None, area_id |-> None]

\* ---- register_user ------------------------------------------------------
MissingArea_Unchecked(role, area) == FALSE
MissingArea(role, area) == role = "dispatcher" /\ IsNone(area)
UsernameTaken_Ignored(user_result) == FALSE
UsernameTaken(user_result) == IsSome(user_result)

\* the call: the area check, then both futures of try_join! are issued
RegisterUser(p, username, password, role, area) ==
    LET in == [op |-> "register", username |-> username, password |-> password,
               role |-> role, area |-> area, session_token |-> 0] IN
    /\ FreeSlot(p)
    /\ calls < MaxCalls
    /\ calls' = calls + 1
    /\ UNCHANGED <<store, nextToken>>
    /\ IF MissingArea(role, area)
       THEN Return(p, in, "Err", "BadRequest", None, None, 0)
       ELSE /\ pc' = [pc EXCEPT ![p] = "register_join"]
            /\ arg' = [arg EXCEPT ![p] = in]
            /\ loc' = [loc EXCEPT ![p] = [NoLoc EXCEPT !.taken = UsersNamed(username) # {}]]
            /\ UNCHANGED <<ret, issued, registered>>

\* try_join!: an Err of either future ends it at once; otherwise it is resolved
\* in the poll in which the second future completes
RegJoin_IgnoreError(p, newloc) ==
    IF ~(newloc.find_done /\ newloc.hash_done)
    THEN Goto(p, "register_join", newloc)
    ELSE IF UsernameTaken(newloc.user_result)
         THEN Fail(p, "Conflict", newloc.writes)
         ELSE Goto(p, "register_create_user", newloc)
RegJoin(p, newloc) ==
    IF newloc.join_error # ""
    THEN Fail(p, newloc.join_error, newloc.writes)
    ELSE IF ~(newloc.find_done /\ newloc.hash_done)
    THEN Goto(p, "register_join", newloc)
    ELSE IF UsernameTaken(newloc.user_result)
         THEN Fail(p, "Conflict", newloc.writes)
         ELSE Goto(p, "register_create_user", newloc)

RegFindUser(p) ==
    /\ pc[p] = "register_join"
    /\ ~loc[p].find_done
    /\ UNCHANGED <<store, nextToken, calls>>
    /\ \E ok \in BOOLEAN :
         IF ~ok THEN RegJoin(p, [loc[p] EXCEPT !.find_done = TRUE,
                                                !.join_error = "StorageError"])
         ELSE \E r \in find_user_by_username(arg[p].username) :
                RegJoin(p, [loc[p] EXCEPT !.find_done = TRUE, !.user_result = r])

RegHashPassword(p) ==
    /\ pc[p] = "register_join"
    /\ ~loc[p].hash_done
    /\ UNCHANGED <<store, nextToken, calls>>
    /\ \E ok \in BOOLEAN :
         IF ~ok THEN RegJoin(p, [loc[p] EXCEPT !.hash_done = TRUE,
                                                !.join_error = "JoinError"])
         ELSE RegJoin(p, [loc[p] EXCEPT !.hash_done = TRUE,
                            !.hashed_password = Some(hash_password(arg[p].password))])

RegCreateUser(p) ==
    /\ pc[p] = "register_create_user"
    /\ UNCHANGED <<dispatchers, nextDispatcherId, sessions, calls>>
    /\ \E ok \in BOOLEAN :
         IF ~ok
         THEN /\ Fail(p, "StorageError", loc[p].writes)
              /\ UNCHANGED <<users, nextToken>>
         ELSE /\ users' = create_user(arg[p].username, Unwrap(loc[p].hashed_password),
                                      arg[p].role)
              /\ nextToken' = nextToken + 1
              /\ Goto(p, "register_find_user",
                      [loc[p] EXCEPT !.session_token = nextToken,
                                     !.created = Some(Cardinality(users) + 1),
                                     !.writes = loc[p].writes + 1])

RegFindCreated(p) ==
    /\ pc[p] = "register_find_user"
    /\ UNCHANGED <<store, nextToken, calls>>
    /\ \E ok \in BOOLEAN :
         IF ~ok THEN Fail(p, "StorageError", loc[p].writes)
         ELSE \E r \in find_user_by_username(arg[p].username) :
                IF IsNone(r) THEN Fail(p, "InternalServerError", loc[p].writes)
                ELSE Goto(p, "register_create_session", [loc[p] EXCEPT !.user = r])

\* (variant that undoes create_user when the Session cannot be stored)
RegCreateSession_Rollback(p) ==
    LET user == Unwrap(loc[p].user)
        w == loc[p].writes + 1 IN
    /\ pc[p] = "register_create_session"
    /\ UNCHANGED <<dispatchers, nextDispatcherId, nextToken, calls>>
    /\ \E ok \in BOOLEAN :
         IF ~ok
         THEN /\ Fail(p, "StorageError", loc[p].writes)
              /\ users' = {u \in users : u.id # Unwrap(loc[p].created)}
              /\ UNCHANGED sessions
         ELSE /\ sessions' = create_session(user.id, loc[p].session_token)
              /\ UNCHANGED users
              /\ IF user.role = "dispatcher"
                 THEN IF IsNone(arg[p].area)
                      THEN Panic(p, w)
                      ELSE Goto(p, "register_create_dispatcher",
                                [loc[p] EXCEPT !.writes = w])
                 ELSE Return(p, arg[p], "Ok", "",
                             Some(UserResponse(user, loc[p].session_token)), None, w)
RegCreateSession(p) ==
    LET user == Unwrap(loc[p].user)
        w == loc[p].writes + 1 IN
    /\ pc[p] = "register_create_session"
    /\ UNCHANGED <<users, dispatchers, nextDispatcherId, nextToken, calls>>
    /\ \E ok \in BOOLEAN :
         IF ~ok
         THEN /\ Fail(p, "StorageError", loc[p].writes)
              /\ UNCHANGED sessions
         ELSE /\ sessions' = create_session(user.id, loc[p].session_token)
              /\ IF user.role = "dispatcher"
                 THEN IF IsNone(arg[p].area)
                      THEN Panic(p, w)
                      ELSE Goto(p, "register_create_dispatcher",
                                [loc[p] EXCEPT !.writes = w])
                 ELSE Return(p, arg[p], "Ok", "",
                             Some(UserResponse(user, loc[p].session_token)), None, w)

RegCreateDispatcher(p) ==
    LET user == Unwrap(loc[p].user) IN
    /\ pc[p] = "register_create_dispatcher"
    /\ UNCHANGED <<users, sessions, nextToken, calls>>
    /\ \E ok \in BOOLEAN :
         IF ~ok
         THEN /\ Fail(p, "StorageError", loc[p].writes)
              /\ UNCHANGED <<dispatchers, nextDispatcherId>>
         ELSE /\ dispatchers' = create_dispatcher(user.id, Unwrap(arg[p].area))
              /\ nextDispatcherId' = nextDispatcherId + 1
              /\ Goto(p, "register_find_dispatcher",
                      [loc[p] EXCEPT !.writes = loc[p].writes + 1])

RegFindDispatcher(p) ==
    LET user == Unwrap(loc[p].user) IN
    /\ pc[p] = "register_find_dispatcher"
    /\ UNCHANGED <<store, nextToken, calls>>
    /\ \E ok \in BOOLEAN :
         IF ~ok THEN Fail(p, "StorageError", loc[p].writes)
         ELSE \E r \in find_dispatcher_by_user_id(user.id) :
                IF IsNone(r) THEN Panic(p, loc[p].writes)
                ELSE Return(p, arg[p], "Ok", "",
                            Some(DispatcherResponse(user, loc[p].session_token, Unwrap(r))),
                            None, loc[p].writes)

\* ---- login_user ---------------------------------------------------------
\* the error kinds of the two refusals
UnknownUsername_NotFound == "NotFound"
UnknownUsername == "Unauthorized"
WrongPassword == "Unauthorized"

\* the call and its first repository round trip
LoginUser(p, username, password) ==
    LET in == [op |-> "login", username |-> username, password |-> password,
               role |-> "", area |-> None, session_token |-> 0] IN
    /\ FreeSlot(p)
    /\ calls < MaxCalls
    /\ calls' = calls + 1
    /\ UNCHANGED <<store, nextToken>>
    /\ \E ok \in BOOLEAN :
         IF ~ok THEN Return(p, in, "Err", "StorageError", None, None, 0)
         ELSE \E r \in find_user_by_username(username) :
                IF IsNone(r) THEN Return(p, in, "Err", UnknownUsername, None, None, 0)
                ELSE /\ pc' = [pc EXCEPT ![p] = "login_verify_password"]
                     /\ arg' = [arg EXCEPT ![p] = in]
                     /\ loc' = [loc EXCEPT ![p] = [NoLoc EXCEPT !.user = r]]
                     /\ UNCHANGED <<ret, issued, registered>>

\* (variant that stores the Session before it looks at the password)
LoginVerifyPassword_SessionFirst(p) ==
    LET user == Unwrap(loc[p].user) IN
    /\ pc[p] = "login_verify_password"
    /\ UNCHANGED <<users, dispatchers, nextDispatcherId, calls>>
    /\ \E ok \in BOOLEAN :
         IF ~ok
         THEN /\ Fail(p, "JoinError", loc[p].writes)
              /\ UNCHANGED <<sessions, nextToken>>
         ELSE IF ~verify_password(user.password, arg[p].password)
              THEN /\ sessions' = create_session(user.id, nextToken)
                   /\ nextToken' = nextToken + 1
                   /\ Fail(p, WrongPassword, loc[p].writes + 1)
              ELSE /\ nextToken' = nextToken + 1
                   /\ UNCHANGED sessions
                   /\ Goto(p, "login_create_session",
                           [loc[p] EXCEPT !.session_token = nextToken])
LoginVerifyPassword(p) ==
    LET user == Unwrap(loc[p].user) IN
    /\ pc[p] = "login_verify_password"
    /\ UNCHANGED <<store, calls>>
    /\ \E ok \in BOOLEAN :
         IF ~ok
         THEN /\ Fail(p, "JoinError", loc[p].writes)
              /\ UNCHANGED nextToken
         ELSE IF ~verify_password(user.password, arg[p].password)
              THEN /\ Fail(p, WrongPassword, loc[p].writes)
                   /\ UNCHANGED nextToken
              ELSE /\ nextToken' = nextToken + 1
                   /\ Goto(p, "login_create_session",
                           [loc[p] EXCEPT !.session_token = nextToken])

\* (single-session variant: the new Session replaces the user's earlier ones)
LoginCreateSession_Evicting(p) ==
    LET user == Unwrap(loc[p].user)
        w == loc[p].writes + 1 IN
    /\ pc[p] = "login_create_session"
    /\ UNCHANGED <<users, dispatchers, nextDispatcherId, nextToken, calls>>
    /\ \E ok \in BOOLEAN :
         IF ~ok
         THEN /\ Fail(p, "StorageError", loc[p].writes)
              /\ UNCHANGED sessions
         ELSE /\ sessions' = {s \in create_session(user.id, loc[p].session_token) :
                              s.user_id = user.id => s.session_token = loc[p].session_token}
              /\ IF user.role = "dispatcher"
                 THEN Goto(p, "login_find_dispatcher", [loc[p] EXCEPT !.writes = w])
                 ELSE Return(p, arg[p], "Ok", "",
                             Some(UserResponse(user, loc[p].session_token)), None, w)

LoginCreateSession(p) ==
    LET user == Unwrap(loc[p].user)
        w == loc[p].writes + 1 IN
    /\ pc[p] = "login_create_session"
    /\ UNCHANGED <<users, dispatchers, nextDispatcherId, nextToken, calls>>
    /\ \E ok \in BOOLEAN :
         IF ~ok
         THEN /\ Fail(p, "StorageError", loc[p].writes)
              /\ UNCHANGED sessions
         ELSE /\ sessions' = create_session(user.id, loc[p].session_token)
              /\ IF user.role = "dispatcher"
                 THEN Goto(p, "login_find_dispatcher", [loc[p] EXCEPT !.writes = w])
                 ELSE Return(p, arg[p], "Ok", "",
                             Some(UserResponse(user, loc[p].session_token)), None, w)

LoginFindDispatcher_Lenient(p) ==
    LET user == Unwrap(loc[p].user) IN
    /\ pc[p] = "login_find_dispatcher"
    /\ UNCHANGED <<store, nextToken, calls>>
    /\ \E ok \in BOOLEAN :
         IF ~ok THEN Fail(p, "StorageError", loc[p].writes)
         ELSE \E r \in find_dispatcher_by_user_id(user.id) :
                IF IsNone(r)
                THEN Return(p, arg[p], "Ok", "",
                            Some(UserResponse(user, loc[p].session_token)), None,
                            loc[p].writes)
                ELSE Return(p, arg[p], "Ok", "",
                            Some(DispatcherResponse(user, loc[p].session_token, Unwrap(r))),
                            None, loc[p].writes)

\* (variant that takes the Session back when the Dispatcher is missing)
LoginFindDispatcher_Cleanup(p) ==
    LET user == Unwrap(loc[p].user) IN
    /\ pc[p] = "login_find_dispatcher"
    /\ UNCHANGED <<users, dispatchers, nextDispatcherId, nextToken, calls>>
    /\ \E ok \in BOOLEAN :
         IF ~ok THEN Fail(p, "StorageError", loc[p].writes) /\ UNCHANGED sessions
         ELSE \E r \in find_dispatcher_by_user_id(user.id) :
                IF IsNone(r)
                THEN /\ sessions' = delete_session(loc[p].session_token)
                     /\ Fail(p, "InternalServerError", loc[p].writes)
                ELSE /\ UNCHANGED sessions
                     /\ Return(p, arg[p], "Ok", "",
                               Some(DispatcherResponse(user, loc[p].session_token, Unwrap(r))),
                               None, loc[p].writes)
LoginFindDispatcher(p) ==
    LET user == Unwrap(loc[p].user) IN
    /\ pc[p] = "login_find_dispatcher"
    /\ UNCHANGED <<store, nextToken, calls>>
    /\ \E ok \in BOOLEAN :
         IF ~ok THEN Fail(p, "StorageError", loc[p].writes)
         ELSE \E r \in find_dispatcher_by_user_id(user.id) :
                IF IsNone(r) THEN Fail(p, "InternalServerError", loc[p].writes)
                ELSE Return(p, arg[p], "Ok", "",
                            Some(DispatcherResponse(user, loc[p].session_token, Unwrap(r))),
                            None, loc[p].writes)

\* ---- logout_user --------------------------------------------------------
LogoutUser_NoDelete(p, session_token) ==
    LET in == [op |-> "logout", username |-> "", password |-> "", role |-> "",
               area |-> None, session_token |-> session_token] IN
    /\ FreeSlot(p)
    /\ UNCHANGED <<calls, users, dispatchers, nextDispatcherId, nextToken>>
    /\ \E ok \in BOOLEAN :
         IF ~ok
         THEN /\ Return(p, in, "Err", "StorageError", None, None, 0)
              /\ UNCHANGED <<sessions>>
         ELSE /\ sessions' = sessions
              /\ Return(p, in, "Ok", "", None, None, 1)

LogoutUser(p, session_token) ==
    LET in == [op |-> "logout", username |-> "", password |-> "", role |-> "",
               area |-> None, session_token |-> session_token] IN
    /\ FreeSlot(p)
    /\ UNCHANGED <<calls, users, dispatchers, nextDispatcherId, nextToken>>
    /\ \E ok \in BOOLEAN :
         IF ~ok
         THEN /\ Return(p, in, "Err", "StorageError", None, None, 0)
              /\ UNCHANGED <<sessions>>
         ELSE /\ sessions' = delete_session(session_token)
              /\ Return(p, in, "Ok", "", None, None, 1)

\* ---- validate_session ---------------------------------------------------
ValidateSession_NotFoundIsFalse(p, session_token) ==
    LET in == [op |-> "validate", username |-> "", password |-> "", role |-> "",
               area |-> None, session_token |-> session_token] IN
    /\ FreeSlot(p)
    /\ UNCHANGED <<calls, store, nextToken>>
    /\ \E ok \in BOOLEAN :
         IF ~ok THEN Return(p, in, "Err", "StorageError", None, None, 0)
         ELSE IF SessionsWith(session_token) = {}
              THEN Return(p, in, "Ok", "", None, Some(FALSE), 0)
              ELSE \E session \in SessionsWith(session_token) :
                     Return(p, in, "Ok", "", None, Some(session.is_valid), 0)

ValidateSession(p, session_token) ==
    LET in == [op |-> "validate", username |-> "", password |-> "", role |-> "",
               area |-> None, session_token |-> session_token] IN
    /\ FreeSlot(p)
    /\ UNCHANGED <<calls, store, nextToken>>
    /\ \E ok \in BOOLEAN :
         IF ~ok THEN Return(p, in, "Err", "StorageError", None, None, 0)
         ELSE IF SessionsWith(session_token) = {}
              THEN Return(p, in, "Err", "SessionNotFound", None, None, 0)
              ELSE \E session \in SessionsWith(session_token) :
                     Return(p, in, "Ok", "", None, Some(session.is_valid), 0)

\* ---- get_resized_profile_image_byte ------------------------------------
\* the profile images of the store and the files under images/user_profile/:
\* user 1 has a good image, user 2 a file that does not decode, user 3 a
\* filename whose file is gone, user 4 no filename; there is no user 5
ImageUserIds == 1..5
Sizes == {16, 32}
ProfileImageNames ==
    [user_id \in ImageUserIds |->
       CASE user_id = 1 -> Some("good.png")
         [] user_id = 2 -> Some("corrupt.png")
         [] user_id = 3 -> Some("gone.png")
         [] OTHER -> None]
FileKind(path) ==
    CASE path = "images/user_profile/good.png" -> "image"
      [] path = "images/user_profile/corrupt.png" -> "garbage"
      [] OTHER -> "absent"
find_profile_image_name_by_user_id(user_id) == ProfileImageNames[user_id]
ImagePath(profile_image_name) ==
    CASE profile_image_name = "good.png" -> "images/user_profile/good.png"
      [] profile_image_name = "corrupt.png" -> "images/user_profile/corrupt.png"
      [] profile_image_name = "gone.png" -> "images/user_profile/gone.png"
\* the PNG that write_to produces, by what a decoder would read from it; the
\* sizes requested here are positive, where `as u32` keeps the value
Png(width, height) == <<"png", width, height>>

ReturnImage(p, in, status, err, bytes) ==
    /\ pc' = [pc EXCEPT ![p] = "idle"]
    /\ ret' = [in |-> in, status |-> status, err |-> err, resp |-> None,
               valid |-> None, writes |-> 0, bytes |-> bytes]
    /\ arg' = [arg EXCEPT ![p] = NoArg]
    /\ loc' = [loc EXCEPT ![p] = NoLoc]
    /\ UNCHANGED <<issued, registered>>

\* the two arms of the match on the lookup that return
NoProfileImage == "NotFound"
ProfileImageLookupFailed_Propagated == "StorageError"
ProfileImageLookupFailed == "NotFound"

\* the call and the repository lookup
GetResizedProfileImageByte(p, user_id, width, height) ==
    LET in == [op |-> "image", username |-> "", password |-> "", role |-> "",
               area |-> None, session_token |-> 0,
               user_id |-> user_id, width |-> width, height |-> height] IN
    /\ FreeSlot(p)
    /\ UNCHANGED <<calls, store, nextToken>>
    /\ \E ok \in BOOLEAN :
         LET profile_image_name == find_profile_image_name_by_user_id(user_id) IN
         IF ~ok
         THEN ReturnImage(p, in, "Err", ProfileImageLookupFailed, None)
         ELSE IF IsNone(profile_image_name)
         THEN ReturnImage(p, in, "Err", NoProfileImage, None)
         ELSE /\ pc' = [pc EXCEPT ![p] = "image_resize"]
              /\ arg' = [arg EXCEPT ![p] = in]
              /\ loc' = [loc EXCEPT ![p] =
                           [NoLoc EXCEPT !.path = ImagePath(Unwrap(profile_image_name))]]
              /\ UNCHANGED <<ret, issued, registered>>

\* the blocking task: image::open, resize_exact, write_to; then `.await??`
ImageResize(p) ==
    /\ pc[p] = "image_resize"
    /\ UNCHANGED <<calls, store, nextToken>>
    /\ \E joined \in BOOLEAN, encoded \in BOOLEAN :
         IF ~joined
         THEN ReturnImage(p, arg[p], "Err", "JoinError", None)
         ELSE IF FileKind(loc[p].path) # "image"
              THEN ReturnImage(p, arg[p], "Err", "InternalServerError", None)
              ELSE IF ~encoded
                   THEN ReturnImage(p, arg[p], "Err", "InternalServerError", None)
                   ELSE ReturnImage(p, arg[p], "Ok", "",
                                    Some(Png(arg[p].width, arg[p].height)))

\* ---- the store is shared: another component removes a Dispatcher row ----
ExternalDeleteDispatcher(d) ==
    /\ d \in dispatchers
    /\ dispatchers' = dispatchers \ {d}
    /\ UNCHANGED <<users, nextDispatcherId, sessions, nextToken, issued, registered,
                   calls, pc, arg, loc, ret>>

\* session tokens a caller can present: the ones it was given, or garbage (0)
KnownTokens == issued \cup {0}

Init ==
    /\ users = {}
    /\ dispatchers = {}
    /\ nextDispatcherId = 1
    /\ sessions = {}
    /\ nextToken = 1
    /\ issued = {}
    /\ registered = {}
    /\ calls = 0
    /\ pc = [p \in Procs |-> "idle"]
    /\ arg = [p \in Procs |-> NoArg]
    /\ loc = [p \in Procs |-> NoLoc]
    /\ ret = NoRet

Next ==
    \E p \in Procs :
        \/ \E username \in Usernames, password \in Passwords, role \in Roles,
              area \in OptAreas : RegisterUser(p, username, password, role, area)
        \/ RegFindUser(p)
        \/ RegHashPassword(p)
        \/ RegCreateUser(p)
        \/ RegFindCreated(p)
        \/ RegCreateSession(p)
        \/ RegCreateDispatcher(p)
        \/ RegFindDispatcher(p)
        \/ \E username \in Usernames, password \in Passwords :
              LoginUser(p, username, password)
        \/ LoginVerifyPassword(p)
        \/ LoginCreateSession(p)
        \/ LoginFindDispatcher(p)
        \/ \E session_token \in KnownTokens : LogoutUser(p, session_token)
        \/ \E session_token \in KnownTokens : ValidateSession(p, session_token)

Spec == Init /\ [][Next]_vars

\* the service together with the other users of its store
ExternalWrite == \E d \in dispatchers : ExternalDeleteDispatcher(d)

NextEnv == Next \/ ExternalWrite

SpecEnv == Init /\ [][NextEnv]_vars

\* ---- the validity flag of a Session is set by the store's other writers --
ExternalInvalidateSession(session) ==
    /\ session \in sessions
    /\ session.is_valid
    /\ sessions' = (sessions \ {session}) \cup {[session EXCEPT !.is_valid = FALSE]}
    /\ UNCHANGED <<users, dispatchers, nextDispatcherId, nextToken, issued, registered,
                   calls, pc, arg, loc, ret>>

ExternalInvalidate == \E session \in sessions : ExternalInvalidateSession(session)

NextSessions == Next \/ ExternalInvalidate

SpecSessions == Init /\ [][NextSessions]_vars

\* ---- the profile image operation, which shares no state with the others --
GetImage(p) ==
    \E user_id \in ImageUserIds, width \in Sizes, height \in Sizes :
        GetResizedProfileImageByte(p, user_id, width, height)

NextImage == \E p \in Procs : GetImage(p) \/ ImageResize(p)

SpecImage == Init /\ [][NextImage]_vars

\* ========================================================================
\* Properties
\* ========================================================================
\* the call of p takes a step
Moved(p) == pc'[p] # pc[p] \/ loc'[p] # loc[p]
\* the step is a call that returns without suspending; ret' is its result
ReturnedAtOnce(op) == calls' = calls + 1 /\ pc' = pc /\ ret'.in.op = op
\* failures of a collaborator (repository, blocking task), propagated by `?`
CollaboratorFailure == {"StorageError", "JoinError"}

\* C1: in every reachable state, also with register_user calls interleaved at
\* their repository round trips, no two User records have the same username.
C1_UniqueUsernames ==
    \A u1, u2 \in users : u1.username = u2.username => u1.id = u2.id

\* C2: once register_user with role dispatcher has returned Ok, the User of its
\* response has exactly one Dispatcher record, in every later state.
C2_OneDispatcherPerDispatcherUser ==
    \A r \in registered :
        r.in.role = "dispatcher" => Cardinality(DispatchersOf(r.resp.user_id)) = 1

\* C3: register_user with role dispatcher and no area returns BadRequest at
\* once: it never reaches a repository call and leaves users, dispatchers and
\* sessions as they were.
C3_MissingAreaIsBadRequest ==
    /\ [](\A p \in Procs :
            arg[p].op = "register" => ~(arg[p].role = "dispatcher" /\ IsNone(arg[p].area)))
    /\ [][(/\ ReturnedAtOnce("register")
           /\ ret'.in.role = "dispatcher"
           /\ IsNone(ret'.in.area))
          => (ret'.status = "Err" /\ ret'.err = "BadRequest" /\ ret'.writes = 0
              /\ UNCHANGED store)]_vars
C3_Witness ==
    /\ ret.in.op = "register" /\ ret.in.role = "dispatcher" /\ IsNone(ret.in.area)
    /\ ret.status = "Err" /\ ret.err = "BadRequest"
    /\ users # {} /\ sessions # {}

\* C4: register_user called with a username some User already has never
\* writes to the repository and never gets past the joined lookup; it returns
\* Conflict (or the failure of the lookup or of the hash task, when that is
\* what the join yields).
C4_TakenUsernameIsConflict ==
    [][\A p \in Procs :
         (arg[p].op = "register" /\ loc[p].taken /\ Moved(p)) =>
            /\ UNCHANGED store
            /\ pc'[p] \in {"register_join", "idle"}
            /\ pc'[p] = "idle" =>
                 /\ ret'.status = "Err" /\ ret'.writes = 0
                 /\ ret'.err \in {"Conflict"} \cup CollaboratorFailure
                 /\ (loc[p].find_done \/ loc[p].hash_done) =>
                       ret'.err \in {"Conflict", IF loc[p].find_done
                                                 THEN "JoinError" ELSE "StorageError"}]_vars
C4_Witness ==
    /\ ret.in.op = "register" /\ ret.status = "Err" /\ ret.err = "Conflict"
    /\ UsersNamed(ret.in.username) # {}
    /\ Cardinality(users) = 1 /\ Cardinality(sessions) = 1

\* C5: right after logout_user(token) returned Ok no Session has that token,
\* and a validate_session(token) issued then yields an error or false, never true.
C5_NoValidAfterLogout ==
    /\ []((ret.in.op = "logout" /\ ret.status = "Ok")
            => SessionsWith(ret.in.session_token) = {})
    /\ [][(/\ ret.in.op = "logout" /\ ret.status = "Ok"
           /\ ret'.in.op = "validate"
           /\ ret'.in.session_token = ret.in.session_token)
          => (ret'.status = "Err" \/ ret'.valid = Some(FALSE))]_vars
C5_Witness ==
    /\ ret.in.op = "validate" /\ ret.status = "Err" /\ ret.err = "SessionNotFound"
    /\ ret.in.session_token \in issued
    /\ \E r \in registered : r.resp.session_token = ret.in.session_token

\* C6: login_user refuses an unknown username and a wrong password for a known
\* username with the same error kind, Unauthorized.
C6_LoginRefusalsUnauthorized ==
    [][/\ (/\ ReturnedAtOnce("login")
           /\ UsersNamed(ret'.in.username) = {}
           /\ ret'.err \notin CollaboratorFailure)
          => (ret'.status = "Err" /\ ret'.err = "Unauthorized")
       /\ \A p \in Procs :
            (/\ pc[p] = "login_verify_password" /\ Moved(p)
             /\ ~verify_password(Unwrap(loc[p].user).password, arg[p].password)
             /\ ~(pc'[p] = "idle" /\ ret'.err \in CollaboratorFailure))
            => (pc'[p] = "idle" /\ ret'.status = "Err" /\ ret'.err = "Unauthorized")]_vars
C6_Witness ==
    /\ ret.in.op = "login" /\ ret.status = "Err" /\ ret.err = "Unauthorized"
    /\ \E u \in UsersNamed(ret.in.username) :
         ~verify_password(u.password, ret.in.password)
    /\ \E username \in Usernames : UsersNamed(username) = {}

\* C7: a LoginResponseDto of register_user or login_user has dispatcher_id and
\* area_id both present when its role is dispatcher and both absent otherwise.
C7_DispatcherFieldsTogether ==
    IsSome(ret.resp) =>
        LET r == Unwrap(ret.resp) IN
        IF r.role = "dispatcher"
        THEN IsSome(r.dispatcher_id) /\ IsSome(r.area_id)
        ELSE IsNone(r.dispatcher_id) /\ IsNone(r.area_id)
C7_Witness ==
    /\ ret.in.op = "login" /\ ret.status = "Ok"
    /\ Unwrap(ret.resp).role = "dispatcher"
    /\ IsSome(Unwrap(ret.resp).dispatcher_id) /\ IsSome(Unwrap(ret.resp).area_id)
    /\ \E r \in registered :
         /\ r.resp.user_id = Unwrap(ret.resp).user_id
         /\ IsSome(r.resp.dispatcher_id) /\ IsSome(r.resp.area_id)

\* C8: when register_user(u, p, dispatcher, Some(a)) returned Ok its response has
\* area_id = a, and a later login_user(u, p) that returns Ok answers with the
\* same user_id, dispatcher_id and area_id.
C8_RegisterThenLoginSameArea ==
    \A r \in registered :
        r.in.role = "dispatcher" =>
            /\ r.resp.area_id = r.in.area
            /\ (/\ ret.in.op = "login" /\ ret.status = "Ok"
                /\ ret.in.username = r.in.username
                /\ ret.in.password = r.in.password)
               => /\ Unwrap(ret.resp).user_id = r.resp.user_id
                  /\ Unwrap(ret.resp).dispatcher_id = r.resp.dispatcher_id
                  /\ Unwrap(ret.resp).area_id = r.resp.area_id

\* C9: in register_user, when the re-read after create_dispatcher finds no
\* Dispatcher record, the call returns Err(InternalServerError).
C9_MissingDispatcherIsInternalError ==
    [][\A p \in Procs :
         (/\ pc[p] = "register_find_dispatcher" /\ pc'[p] = "idle"
          /\ DispatchersOf(Unwrap(loc[p].user).id) = {}
          /\ ret'.err \notin CollaboratorFailure)
         => (ret'.status = "Err" /\ ret'.err = "InternalServerError"
             /\ IsNone(ret'.resp))]_vars

\* C10: login_user with the right password for a dispatcher-role User without a
\* Dispatcher record returns Err(InternalServerError) and no LoginResponseDto.
C10_LoginWithoutDispatcherRecord ==
    [][\A p \in Procs :
         (/\ pc[p] = "login_find_dispatcher" /\ pc'[p] = "idle"
          /\ DispatchersOf(Unwrap(loc[p].user).id) = {}
          /\ ret'.err \notin CollaboratorFailure)
         => (ret'.status = "Err" /\ ret'.err = "InternalServerError"
             /\ IsNone(ret'.resp))]_vars
C10_Witness ==
    /\ ret.in.op = "login" /\ ret.status = "Err" /\ ret.err = "InternalServerError"
    /\ \E u \in UsersNamed(ret.in.username) :
         /\ u.role = "dispatcher"
         /\ verify_password(u.password, ret.in.password)
         /\ DispatchersOf(u.id) = {}

\* C11: validate_session returns the is_valid flag of the stored Session as it
\* is, and when no Session has the token it returns the repository's error,
\* never Ok(false).
C11_ValidateVerbatim ==
    [][(ret' # ret /\ ret'.in.op = "validate") =>
         IF SessionsWith(ret'.in.session_token) = {}
         THEN ret'.status = "Err" /\ IsNone(ret'.valid)
         ELSE \/ ret'.status = "Err" /\ ret'.err = "StorageError" /\ IsNone(ret'.valid)
              \/ /\ ret'.status = "Ok"
                 /\ \E session \in SessionsWith(ret'.in.session_token) :
                      ret'.valid = Some(session.is_valid)]_vars
C11_Witness ==
    /\ ret.in.op = "validate" /\ ret.status = "Ok" /\ ret.valid = Some(FALSE)
    /\ \E session \in SessionsWith(ret.in.session_token) : ~session.is_valid
    /\ \E session \in sessions : session.is_valid

\* C12: a register_user that returns Ok has created one User and one Session,
\* and one Dispatcher exactly when it was called with role dispatcher (the
\* writes are made in that order, so 2 writes are User and Session, 3 are
\* User, Session and Dispatcher); no step of register_user changes or removes
\* a record that exists.
C12_RegisterCreatesItsRecords ==
    /\ []((ret.in.op = "register" /\ ret.status = "Ok")
            => ret.writes = IF ret.in.role = "dispatcher" THEN 3 ELSE 2)
    /\ [][\A p \in Procs :
            (arg[p].op = "register" /\ Moved(p)) =>
               /\ users \subseteq users'
               /\ sessions \subseteq sessions'
               /\ dispatchers \subseteq dispatchers'
               /\ Cardinality(users') + Cardinality(sessions') + Cardinality(dispatchers')
                    <= Cardinality(users) + Cardinality(sessions)
                         + Cardinality(dispatchers) + 1]_vars

\* C13: the step of login_user that creates the Session adds exactly one
\* Session, with an unused token and bound to the user that logged in, and
\* keeps every Session that exists as it is; no other step of login_user
\* touches the Sessions.  A user so holds the Sessions of all its logins and
\* of its registration until they are logged out.
C13_LoginAddsOneSession ==
    [][\A p \in Procs :
         (arg[p].op = "login" /\ Moved(p)) =>
            IF pc[p] = "login_create_session" /\ (pc'[p] # "idle" \/ ret'.status = "Ok")
            THEN /\ sessions \subseteq sessions'
                 /\ SessionsWith(loc[p].session_token) = {}
                 /\ sessions' \ sessions =
                      {[session_token |-> loc[p].session_token,
                        user_id |-> Unwrap(loc[p].user).id, is_valid |-> TRUE]}
            ELSE sessions' = sessions]_vars
C13_Witness ==
    /\ ret.in.op = "login" /\ ret.status = "Ok"
    /\ \E r \in registered :
         /\ r.resp.user_id = Unwrap(ret.resp).user_id
         /\ r.resp.session_token # Unwrap(ret.resp).session_token
         /\ \E s1, s2 \in sessions :
              /\ s1.user_id = r.resp.user_id /\ s1.session_token = r.resp.session_token
              /\ s2.user_id = r.resp.user_id
              /\ s2.session_token = Unwrap(ret.resp).session_token

\* C14: get_resized_profile_image_byte ends with NotFound, before any file is
\* opened, whenever the repository has no filename for the user (a user
\* without filename and an unknown user alike); once it has a filename, the one
\* step of the blocking task ends the call: with InternalServerError when the
\* file cannot be opened, decoded or encoded (never a second attempt), and
\* otherwise with the PNG of the requested width and height.
C14_ImageErrors ==
    [][/\ (pc' = pc /\ ret' # ret /\ ret'.in.op = "image")
            => ret'.status = "Err" /\ ret'.err = "NotFound"
       /\ \A p \in Procs :
            /\ (pc[p] = "idle" /\ pc'[p] = "image_resize")
                 => IsSome(ProfileImageNames[arg'[p].user_id])
            /\ (pc[p] = "image_resize" /\ Moved(p)) =>
                 /\ pc'[p] = "idle"
                 /\ ret'.in = arg[p]
                 /\ IF ret'.status = "Ok"
                    THEN /\ FileKind(loc[p].path) = "image"
                         /\ ret'.bytes = Some(<<"png", arg[p].width, arg[p].height>>)
                    ELSE /\ ret'.status = "Err"
                         /\ ret'.err \in {"InternalServerError", "JoinError"}
                         /\ IsNone(ret'.bytes)]_vars
C14_Witness ==
    /\ ret.in.op = "image" /\ ret.status = "Err" /\ ret.err = "InternalServerError"
    /\ IsSome(ProfileImageNames[ret.in.user_id])
    /\ FileKind(ImagePath(Unwrap(ProfileImageNames[ret.in.user_id]))) = "garbage"
    /\ \E p \in Procs : pc[p] = "image_resize"

\* C15: every register_user call that returned Ok reports the id of the User
\* record that this call created, and the Session with the token of its
\* response belongs to that id.
C15_RegisterReportsItsOwnUser ==
    \A r \in registered :
       /\ IsSome(r.created)
       /\ r.resp.user_id = Unwrap(r.created)
       /\ \A session \in SessionsWith(r.resp.session_token) :
             session.user_id = Unwrap(r.created)

\* C16: while register_user awaits its try_join! it has written nothing, and
\* when the lookup or the hashing task fails the call ends in that very step
\* with that failure, whatever the other future did, and the stored Users,
\* Sessions and Dispatchers are the ones that were there before.
C16_JoinFailureWritesNothing ==
    /\ [](\A p \in Procs :
            /\ loc[p].join_error = ""
            /\ pc[p] = "register_join" => loc[p].writes = 0)
    /\ [][\A p \in Procs :
            (pc[p] = "register_join" /\ Moved(p)) =>
               /\ store' = store
               /\ pc'[p] \in {"idle", "register_join", "register_create_user"}
               /\ pc'[p] = "idle" =>
                    /\ ret'.in = arg[p]
                    /\ ret'.status = "Err" /\ ret'.writes = 0
                    /\ ret'.err \in CollaboratorFailure \cup {"Conflict"}
               /\ pc'[p] = "register_create_user" =>
                    /\ IsSome(loc'[p].hashed_password)
                    /\ loc'[p].find_done /\ IsNone(loc'[p].user_result)]_vars
C16_Witness ==
    /\ ret.in.op = "register" /\ ret.status = "Err" /\ ret.err = "JoinError"
    /\ ret.writes = 0
    /\ users # {}
    /\ UsersNamed(ret.in.username) = {}

\* C17: whenever register_user or login_user has just returned a
\* LoginResponse, the store holds a Session with the token and the user id
\* of that response.
C17_ResponseHasItsSession ==
    [][(ret' # ret /\ IsSome(ret'.resp)) =>
         \E session \in sessions' :
            /\ session.session_token = Unwrap(ret'.resp).session_token
            /\ session.user_id = Unwrap(ret'.resp).user_id]_vars
C17_Witness ==
    /\ ret.in.op = "login" /\ IsSome(ret.resp)
    /\ Unwrap(ret.resp).role = "dispatcher"
    /\ \E session \in sessions :
         /\ session.session_token = Unwrap(ret.resp).session_token
         /\ session.user_id = Unwrap(ret.resp).user_id

\* C18: login_user writes nothing up to and including its password check: the
\* step that looks the user up and the step that verifies the password leave
\* Users, Sessions and Dispatchers as they are, and a login that returns
\* Unauthorized returns from one of these two steps, having written nothing.
C18_UnauthorizedLoginWritesNothing ==
    [][/\ ReturnedAtOnce("login") => store' = store /\ ret'.writes = 0
       /\ (ret' # ret /\ ret'.in.op = "login" /\ ret'.err = "Unauthorized")
            => store' = store /\ ret'.writes = 0
       /\ \A p \in Procs :
            /\ (pc[p] = "idle" /\ pc'[p] = "login_verify_password")
                 => store' = store /\ loc'[p].writes = 0
            /\ (pc[p] = "login_verify_password" /\ Moved(p))
                 => /\ store' = store
                    /\ pc'[p] \in {"idle", "login_create_session"}
                    /\ pc'[p] = "idle" => ret'.in = arg[p] /\ ret'.writes = 0
                    /\ pc'[p] # "idle" => loc'[p].writes = 0]_vars
C18_Witness ==
    /\ ret.in.op = "login" /\ ret.status = "Err" /\ ret.err = "Unauthorized"
    /\ ret.writes = 0
    /\ \E u \in UsersNamed(ret.in.username) :
         /\ ~verify_password(u.password, ret.in.password)
         /\ \E session \in sessions : session.user_id = u.id

\* C19: register_user undoes nothing.  A step that ends the call after
\* create_user succeeded removes no User, Session or Dispatcher, and the
\* Session of the call, once stored, is still there; after such a failed call
\* a User of that username exists, so that a register_user issued then for
\* the same username finds it taken and, when the joined lookup and hash
\* complete, returns Conflict.
C19_NoRollback ==
    /\ []((ret.in.op = "register" /\ ret.status # "Ok" /\ ret.writes >= 1)
            => UsersNamed(ret.in.username) # {})
    /\ [][\A p \in Procs :
            /\ (arg[p].op = "register" /\ loc[p].writes >= 1 /\ pc'[p] = "idle") =>
                 /\ users \subseteq users'
                 /\ sessions \subseteq sessions'
                 /\ dispatchers \subseteq dispatchers'
                 /\ \E u \in users' : u.id = Unwrap(loc[p].created)
                 /\ pc[p] \in {"register_create_dispatcher", "register_find_dispatcher"}
                      => \E session \in sessions' :
                            session.session_token = loc[p].session_token
            /\ (/\ ret.in.op = "register" /\ ret.status # "Ok" /\ ret.writes >= 1
                /\ pc[p] = "idle" /\ pc'[p] = "register_join"
                /\ arg'[p].username = ret.in.username)
                 => loc'[p].taken
            /\ (/\ arg[p].op = "register" /\ loc[p].taken /\ pc'[p] = "idle"
                /\ ret'.err \notin CollaboratorFailure)
                 => ret'.status = "Err" /\ ret'.err = "Conflict"]_vars
C19_Witness ==
    /\ ret.in.op = "register" /\ ret.status = "Err" /\ ret.err = "Conflict"
    /\ registered = {}
    /\ \A p \in Procs : pc[p] = "idle"
    /\ UsersNamed(ret.in.username) # {}
    /\ \E session \in sessions, u \in UsersNamed(ret.in.username) : session.user_id = u.id

\* C20: login_user looks for the Dispatcher only after it stored the Session:
\* while it awaits that lookup its one write is done and the Session of the call
\* is stored, and when the lookup finds no Dispatcher the call returns
\* InternalServerError with that Session, of a token given to nobody, still
\* stored for the user.
C20_SessionOutlivesFailedLogin ==
    /\ [](\A p \in Procs :
            pc[p] = "login_find_dispatcher" =>
               /\ loc[p].writes = 1
               /\ [session_token |-> loc[p].session_token,
                   user_id |-> Unwrap(loc[p].user).id, is_valid |-> TRUE] \in sessions)
    /\ [][\A p \in Procs :
            (/\ pc[p] = "login_find_dispatcher" /\ pc'[p] = "idle"
             /\ ret'.err = "InternalServerError") =>
               /\ DispatchersOf(Unwrap(loc[p].user).id) = {}
               /\ ret'.writes = 1
               /\ sessions' = sessions
               /\ loc[p].session_token \notin issued'
               /\ \E session \in sessions' :
                    /\ session.session_token = loc[p].session_token
                    /\ session.user_id = Unwrap(loc[p].user).id]_vars
C20_Witness ==
    /\ ret.in.op = "login" /\ ret.status = "Err" /\ ret.err = "InternalServerError"
    /\ ret.writes = 1
    /\ \E u \in UsersNamed(ret.in.username) :
         /\ DispatchersOf(u.id) = {}
         /\ Cardinality({session \in sessions : session.user_id = u.id}) >= 2
         /\ \A session \in sessions : session.session_token \notin issued
====
